---------------------------- MODULE Spec2Model ----------------------------
(***************************************************************************)
(* Model of the Document_Parser ingestion pipeline                         *)
(* (src/Document_Parser/src/main.rs): Spec is main run on a directory,     *)
(* CallSpec its functions, and the search handler of the server            *)
(* (src/Server/src/main.rs), each called on one argument.                  *)
(*                                                                         *)
(* Texts, file names and links are sequences of one-character strings, so  *)
(* that substring search, line splitting, filename splitting and the two   *)
(* date grammars are computed the way the Rust code computes them.         *)
(* Option<T> is a sequence of length at most one: None is <<>>, Some(v)    *)
(* is <<v>>.                                                               *)
(***************************************************************************)
EXTENDS Integers, Sequences, FiniteSets, TLC

VARIABLES
    pc,               \* position of main: start, load, read_dir, loop, ok, err
    err,              \* the call whose error main returned, "" if none
    json_file,        \* out/entries.json: [kind: absent | corrupt | json, doc]
    in_folder,        \* the files of in/
    old_folder,       \* the files of old/
    existing_titles,  \* main's HashSet<String>
    entries,          \* main's Vec<Entry>
    todo,             \* directory entries the read_dir iterator has yet to yield
    cur,              \* Option: the directory entry the loop body last ran on
    report,           \* what the loop body printed for cur (stdout and stderr)
    extracted,        \* names of the files pdftotext was run on in this run
    failed,           \* names of the files pdftotext failed on in this run
    saves,            \* number of fs::write calls on entries.json in this run
    loaded,           \* the entries as they were when the load finished
    runs,             \* number of runs of main started so far
    call,             \* the function under call and its argument, outside main
    ret               \* Option: what the function under call returned

vars == <<pc, err, json_file, in_folder, old_folder, existing_titles, entries,
          todo, cur, report, extracted, failed, saves, loaded, runs, call, ret>>

-----------------------------------------------------------------------------
(* Bounds of the model. *)

\* number of runs of main in one behaviour
MaxRuns == 2
\* number of files in the intake directory at any time
MaxIntake == 2
\* the calendar year chrono::Local::now() reports during the runs
NowYear == 2024

-----------------------------------------------------------------------------
(* Option<T> *)

None == <<>>
Some(v) == <<v>>
IsSome(o) == Len(o) = 1
Unwrap(o) == o[1]

-----------------------------------------------------------------------------
(* Strings *)

Min(a, b) == IF a <= b THEN a ELSE b

\* s[from..] in Rust's notation, 1-based
Suffix(s, from) == SubSeq(s, from, Len(s))

\* str::contains(pat) for a string pattern: plain substring search
Contains(s, pat) ==
    \E i \in 1..(Len(s) - Len(pat) + 1) : SubSeq(s, i, i + Len(pat) - 1) = pat

\* str::split(c): the pieces between the occurrences of c, empty pieces kept
RECURSIVE Split(_, _)
Split(s, c) ==
    IF \A i \in 1..Len(s) : s[i] # c
    THEN <<s>>
    ELSE LET i == CHOOSE k \in 1..Len(s) :
                     s[k] = c /\ \A j \in 1..(k - 1) : s[j] # c
         IN  <<SubSeq(s, 1, i - 1)>> \o Split(Suffix(s, i + 1), c)

\* str::lines(): split at "\n"; a final empty piece is not a line; a "\r"
\* right before a "\n" belongs to the line ending
Lines(text) ==
    LET pieces == Split(text, "\n")
        kept   == IF pieces[Len(pieces)] = <<>>
                  THEN SubSeq(pieces, 1, Len(pieces) - 1)
                  ELSE pieces
        strip(k) == LET l == pieces[k]
                    IN  IF k < Len(pieces) /\ Len(l) > 0 /\ l[Len(l)] = "\r"
                        THEN SubSeq(l, 1, Len(l) - 1)
                        ELSE l
    IN  [k \in 1..Len(kept) |-> strip(k)]

\* str::to_lowercase() on the letters the inputs of the model use
Lower(c) ==
    CASE c = "A" -> "a" [] c = "B" -> "b" [] c = "C" -> "c" [] c = "D" -> "d"
      [] c = "E" -> "e" [] c = "F" -> "f" [] c = "G" -> "g" [] c = "H" -> "h"
      [] c = "I" -> "i" [] c = "J" -> "j" [] c = "L" -> "l" [] c = "M" -> "m"
      [] c = "N" -> "n" [] c = "O" -> "o" [] c = "R" -> "r" [] c = "S" -> "s"
      [] c = "T" -> "t" [] c = "U" -> "u" [] c = "V" -> "v" [] c = "Z" -> "z"
      [] c = "Ç" -> "ç" [] c = "Ã" -> "ã"
      [] OTHER -> c

to_lowercase(s) == [k \in 1..Len(s) |-> Lower(s[k])]

-----------------------------------------------------------------------------
(* Title Detector *)

\* the markers main passes to return_parameters
keywords ==
    << <<"R","E","S","O","L","U","Ç","Ã","O">>,
       <<"C","r","o","n","o","g","r","a","m","a">>,
       <<"C","a","l","e","n","d","á","r","i","o">>,
       <<"C","a","l","e","n","d","a","r","i","o">> >>

\* mutant of return_title: the keywords are tried one after the other, each
\* on all lines
return_title_KeywordMajor(formatted_text, kws) ==
    LET ls  == Lines(formatted_text)
        has == {n \in 1..Len(kws) : \E k \in 1..Len(ls) : Contains(ls[k], kws[n])}
        n1  == CHOOSE n \in has : \A m \in has : n <= m
        hit == {k \in 1..Len(ls) : Contains(ls[k], kws[n1])}
    IN  IF has = {} THEN None
        ELSE Some(ls[CHOOSE k \in hit : \A j \in hit : k <= j])

\* the first line that contains any of the keywords
return_title(formatted_text, kws) ==
    LET ls  == Lines(formatted_text)
        hit == {k \in 1..Len(ls) : \E n \in 1..Len(kws) : Contains(ls[k], kws[n])}
    IN  IF hit = {} THEN None
        ELSE Some(ls[CHOOSE k \in hit : \A j \in hit : k <= j])

-----------------------------------------------------------------------------
(* Date Extractor *)

AsciiDigits == {"0", "1", "2", "3", "4", "5", "6", "7", "8", "9"}
\* \d of the regex is Unicode-aware: it also matches decimal digits that
\* str::parse does not accept; "U+0663" stands for ARABIC-INDIC DIGIT THREE
Digits == AsciiDigits \cup {"U+0663"}
\* \s of the regex
Whitespace == {" ", "\t", "\n", "\r", "\f"}

DigitValue(c) ==
    CASE c = "0" -> 0 [] c = "1" -> 1 [] c = "2" -> 2 [] c = "3" -> 3
      [] c = "4" -> 4 [] c = "5" -> 5 [] c = "6" -> 6 [] c = "7" -> 7
      [] c = "8" -> 8 [] c = "9" -> 9

\* str::parse::<u32>() / parse::<i32>() of a run of \d characters, .ok()
RECURSIVE ParseDigits(_)
ParseDigits(s) ==
    IF Len(s) = 0 THEN 0
    ELSE 10 * ParseDigits(SubSeq(s, 1, Len(s) - 1)) + DigitValue(s[Len(s)])

ParseInt(s) ==
    IF Len(s) > 0 /\ \A k \in 1..Len(s) : s[k] \in AsciiDigits
    THEN Some(ParseDigits(s))
    ELSE None

\* the number of consecutive characters from position i on that are in S
\* (inS = TRUE) or not in S (inS = FALSE)
RunLen(t, i, S, inS) ==
    CHOOSE n \in 0..(Len(t) - i + 1) :
        /\ \A k \in 0..(n - 1) : (t[i + k] \in S) = inS
        /\ (i + n > Len(t) \/ (t[i + n] \in S) # inS)

DigitRun(t, i) == IF i > Len(t) THEN 0 ELSE RunLen(t, i, Digits, TRUE)
SpaceRun(t, i) == IF i > Len(t) THEN 0 ELSE RunLen(t, i, Whitespace, TRUE)
\* [^\d\s]
WordRun(t, i)  == IF i > Len(t) THEN 0
                  ELSE RunLen(t, i, Digits \cup Whitespace, FALSE)

\* the literal "de" at position i
DeAt(t, i) == i + 1 <= Len(t) /\ t[i] = "d" /\ t[i + 1] = "e"

month_names ==
    << <<"j","a","n","e","i","r","o">>,
       <<"f","e","v","e","r","e","i","r","o">>,
       <<"m","a","r","ç","o">>,
       <<"a","b","r","i","l">>,
       <<"m","a","i","o">>,
       <<"j","u","n","h","o">>,
       <<"j","u","l","h","o">>,
       <<"a","g","o","s","t","o">>,
       <<"s","e","t","e","m","b","r","o">>,
       <<"o","u","t","u","b","r","o">>,
       <<"n","o","v","e","m","b","r","o">>,
       <<"d","e","z","e","m","b","r","o">> >>

\* chrono: NaiveDate::from_ymd_opt(y, m, d) is Some
IsLeap(y) == (y % 4 = 0 /\ y % 100 # 0) \/ y % 400 = 0

DaysInMonth(y, m) ==
    IF m = 2 THEN (IF IsLeap(y) THEN 29 ELSE 28)
    ELSE IF m \in {4, 6, 9, 11} THEN 30 ELSE 31

ValidYmd(y, m, d) == m \in 1..12 /\ d >= 1 /\ d <= DaysInMonth(y, m)

\* days from 1970-01-01 to the date y-m-d of the proleptic Gregorian calendar
DaysFromCivil(y, m, d) ==
    LET yy  == IF m <= 2 THEN y - 1 ELSE y
        era == yy \div 400
        yoe == yy - era * 400
        mp  == IF m > 2 THEN m - 3 ELSE m + 9
        doy == (153 * mp + 2) \div 5 + d - 1
        doe == yoe * 365 + yoe \div 4 - yoe \div 100 + doy
    IN  era * 146097 + doe - 719468

\* from_ymd_opt(year, month, day)?.and_hms_opt(0, 0, 0)?.timestamp()
Timestamp(y, m, d) ==
    IF ValidYmd(y, m, d) THEN Some(DaysFromCivil(y, m, d) * 86400) ELSE None

\* the year of a captured year_str; now is chrono::Local::now().year()
YearOf(parsed, two_digits, now) ==
    IF IsSome(parsed) /\ two_digits
    THEN (IF Unwrap(parsed) <= now % 100
          THEN Some(2000 + Unwrap(parsed))
          ELSE Some(1900 + Unwrap(parsed)))
    ELSE parsed

ResolveYear(year_str, now) == YearOf(ParseInt(year_str), Len(year_str) = 2, now)

\* the least element of a set of positions, 0 for the empty set
FirstOf(S) == IF S = {} THEN 0 ELSE CHOOSE i \in S : \A j \in S : i <= j
LastOf(S)  == IF S = {} THEN 0 ELSE CHOOSE i \in S : \A j \in S : j <= i

\* (\d{1,2})\s*de\s*([^\d\s]+)\s*de\s*(\d{2,4}) matched at position i: the
\* captures, or None.  Each greedy group has one length that can match, except
\* the month group, which gives characters back until the rest matches.
\*   PtYearAt   (\d{2,4}) at y: y, or 0
\*   PtSecondDe de\s*(\d{2,4}) at q: the position of the year, or 0
\*   PtRestAt   \s*de\s*(\d{2,4}) at q: the position of the year, or 0
PtYearAt(t, y) == IF DigitRun(t, y) >= 2 THEN y ELSE 0
PtSecondDe(t, q) == IF DeAt(t, q) THEN PtYearAt(t, q + 2 + SpaceRun(t, q + 2)) ELSE 0
PtRestAt(t, q) == PtSecondDe(t, q + SpaceRun(t, q))

PtGroups(t, i, d1, p4, m, y) ==
    Some([day      |-> SubSeq(t, i, i + d1 - 1),
          month    |-> SubSeq(t, p4, p4 + m - 1),
          year_str |-> SubSeq(t, y, y + Min(4, DigitRun(t, y)) - 1)])

\* m: the longest month group after which the rest matches, 0 if there is none
PtMonthLen(t, i, d1, p4, m) ==
    IF m = 0 THEN None ELSE PtGroups(t, i, d1, p4, m, PtRestAt(t, p4 + m))

PtMonth(t, i, d1, p4) ==
    PtMonthLen(t, i, d1, p4, LastOf({m \in 1..WordRun(t, p4) : PtRestAt(t, p4 + m) # 0}))

\* p2: the position after the day and the whitespace that follows it
PtFirstDe(t, i, d1, p2) ==
    IF d1 >= 1 /\ DeAt(t, p2)
    THEN PtMonth(t, i, d1, p2 + 2 + SpaceRun(t, p2 + 2))
    ELSE None

\* d1: the length of the day group
PtAfterDay(t, i, d1) == PtFirstDe(t, i, d1, i + d1 + SpaceRun(t, i + d1))

PtMatchAt(t, i) == PtAfterDay(t, i, Min(2, DigitRun(t, i)))

\* (\d{1,2})/(\d{1,2})/(\d{2,4}) matched at position i: the captures, or None
SlashAt(t, i) == i <= Len(t) /\ t[i] = "/"

NumGroups(t, i, d1, p2, d2, p3, d3) ==
    IF d1 >= 1 /\ SlashAt(t, i + d1) /\ d2 >= 1 /\ SlashAt(t, p2 + d2) /\ d3 >= 2
    THEN Some([day      |-> SubSeq(t, i, i + d1 - 1),
               month    |-> SubSeq(t, p2, p2 + d2 - 1),
               year_str |-> SubSeq(t, p3, p3 + d3 - 1)])
    ELSE None

NumAfterMonth(t, i, d1, p2, d2) ==
    NumGroups(t, i, d1, p2, d2, p2 + d2 + 1, Min(4, DigitRun(t, p2 + d2 + 1)))

NumAfterDay(t, i, d1) ==
    NumAfterMonth(t, i, d1, i + d1 + 1, Min(2, DigitRun(t, i + d1 + 1)))

NumMatchAt(t, i) == NumAfterDay(t, i, Min(2, DigitRun(t, i)))

\* Regex::captures: the match at the leftmost position that has one
PtPick(t, i) == IF i = 0 THEN None ELSE PtMatchAt(t, i)
PtCaptures(t) == PtPick(t, FirstOf({i \in 1..Len(t) : IsSome(PtMatchAt(t, i))}))

NumPick(t, i) == IF i = 0 THEN None ELSE NumMatchAt(t, i)
NumCaptures(t) == NumPick(t, FirstOf({i \in 1..Len(t) : IsSome(NumMatchAt(t, i))}))

\* position() of the lowercased month name in month_names, counted from 0
MonthOf(month_str) ==
    FirstOf({k \in 1..Len(month_names) :
               to_lowercase(month_names[k]) = to_lowercase(month_str)}) - 1

\* the ? on day, the if let on month, the ? on year, then the date
YmdDate(day, month, year) ==
    IF IsSome(day) /\ IsSome(month) /\ IsSome(year)
    THEN Timestamp(Unwrap(year), Unwrap(month), Unwrap(day))
    ELSE None

PtDate(cap, now) ==
    IF IsSome(cap)
    THEN YmdDate(ParseInt(Unwrap(cap).day),
                 IF MonthOf(Unwrap(cap).month) >= 0
                 THEN Some(MonthOf(Unwrap(cap).month)) ELSE None,
                 ResolveYear(Unwrap(cap).year_str, now))
    ELSE None

extract_portuguese_date(line, now) == PtDate(PtCaptures(line), now)

NumDate(cap, now) ==
    IF IsSome(cap)
    THEN YmdDate(ParseInt(Unwrap(cap).day), ParseInt(Unwrap(cap).month),
                 ResolveYear(Unwrap(cap).year_str, now))
    ELSE None

extract_date(line, now) == NumDate(NumCaptures(line), now)

\* the for loop of return_date: the date of the first line that has one
FirstLineDate(ls, now, k) == IF k = 0 THEN None ELSE extract_date(ls[k], now)

LineDates(ls, now) ==
    FirstLineDate(ls, now, FirstOf({k \in 1..Len(ls) : IsSome(extract_date(ls[k], now))}))

\* the locale-named grammar on the whole text, then the numeric grammar line
\* by line
DateOr(pt, text, now) == IF IsSome(pt) THEN pt ELSE LineDates(Lines(text), now)

return_date(formatted_text, now) ==
    DateOr(extract_portuguese_date(formatted_text, now), formatted_text, now)

-----------------------------------------------------------------------------
(* Record Builder *)

\* mutant of Parameters: the duplicate is flagged but its title and date stay
ParametersKeepTitle(found_title, found_date, text, dup) ==
    [title |-> found_title, text |-> text, date |-> found_date, is_duplicate |-> dup]

\* lines 83-96: the tuple return_parameters returns, dup being the outcome
\* of the test of lines 87-88
Parameters(found_title, found_date, text, dup) ==
    [title        |-> IF dup THEN None ELSE found_title,
     text         |-> text,
     date         |-> IF dup THEN None ELSE found_date,
     is_duplicate |-> dup]

\* mutant of IsDuplicate: the known titles are not consulted
IsDuplicateNever(found_title, titles) == FALSE

\* lines 87-88: a title was found and existing_titles contains it
IsDuplicate(found_title, titles) ==
    IsSome(found_title) /\ Unwrap(found_title) \in titles

Checked(found_title, found_date, text, titles) ==
    Parameters(found_title, found_date, text, IsDuplicate(found_title, titles))

return_parameters(text, kws, titles, now) ==
    Checked(return_title(text, kws), return_date(text, now), text, titles)

\* format!("{:x}", Sha256::digest(title_str)): the digest is not computed;
\* it is a value that determines, and is determined by, the hashed text
title_hash(title_str) == <<"sha256:">> \o title_str

\* Path::file_stem and Path::extension of a file name
LastDot(name) ==
    LET at == {k \in 2..Len(name) : name[k] = "."}
    IN  IF at = {} THEN 0 ELSE CHOOSE k \in at : \A j \in at : j <= k

file_stem(name) ==
    IF LastDot(name) = 0 THEN name ELSE SubSeq(name, 1, LastDot(name) - 1)

extension(name) ==
    IF LastDot(name) = 0 THEN None ELSE Some(Suffix(name, LastDot(name) + 1))

\* mutant of LinkOf: a stem without a key yields a link with an empty key
LinkOfPartial(parts) ==
    Some(<<"https://sig.unb.br/sigrh/downloadArquivo?idArquivo=">>
         \o parts[1] \o <<"&key=">> \o (IF Len(parts) >= 2 THEN parts[2] ELSE <<>>))

\* mutant of LinkOf: the stem is split at its first underscore only
RECURSIVE JoinUnderscore(_)
JoinUnderscore(parts) ==
    IF Len(parts) = 1 THEN parts[1]
    ELSE parts[1] \o <<"_">> \o JoinUnderscore(Tail(parts))

LinkOfFirstUnderscore(parts) ==
    IF Len(parts) >= 2
    THEN Some(<<"https://sig.unb.br/sigrh/downloadArquivo?idArquivo=">>
              \o parts[1] \o <<"&key=">> \o JoinUnderscore(Tail(parts)))
    ELSE None

\* lines 190-199, parts being the pieces of the stem: Ok(link) is
\* Some(link), Err is None
LinkOf(parts) ==
    IF Len(parts) = 2
    THEN Some(<<"https://sig.unb.br/sigrh/downloadArquivo?idArquivo=">>
              \o parts[1] \o <<"&key=">> \o parts[2])
    ELSE None

get_link(name) == LinkOf(Split(file_stem(name), "_"))

Entry(id, title, date, content, link) ==
    [id |-> id, title |-> title, date |-> date, content |-> content, link |-> link]

\* mutant of push: the new entry goes to the front
pushFront(ents, e) == <<e>> \o ents

\* Vec::push
push(ents, e) == Append(ents, e)

-----------------------------------------------------------------------------
(* Catalog Store: entries.json as serde_json writes and reads it *)

\* an Option field is written as null or as the value
JsonOpt(o, tag) == IF IsSome(o) THEN [t |-> tag, v |-> Unwrap(o)] ELSE [t |-> "null"]

\* mutant of OptJson: null is read as the default value of the field's type
OptJsonNullAsDefault(j) == IF j.t = "null" THEN Some(<<>>) ELSE Some(j.v)

OptJson(j) == IF j.t = "null" THEN None ELSE Some(j.v)

to_json(e) ==
    [id      |-> e.id,
     title   |-> JsonOpt(e.title, "string"),
     date    |-> JsonOpt(e.date, "number"),
     content |-> e.content,
     link    |-> e.link]

from_json(j) == Entry(j.id, OptJson(j.title), OptJson(j.date), j.content, j.link)

\* serde_json::to_string_pretty(&Data { entries })
Serialize(ents) == [kind |-> "json", doc |-> [k \in 1..Len(ents) |-> to_json(ents[k])]]

\* mutant of Deserialize: a document that does not parse counts as no entries
DeserializeOrDefault(file) ==
    IF file.kind = "json"
    THEN Some([k \in 1..Len(file.doc) |-> from_json(file.doc[k])])
    ELSE Some(<<>>)

\* serde_json::from_str::<Data>: Ok(entries) is Some(entries), Err is None
Deserialize(file) ==
    IF file.kind = "json"
    THEN Some([k \in 1..Len(file.doc) |-> from_json(file.doc[k])])
    ELSE None

Absent  == [kind |-> "absent", doc |-> <<>>]
Corrupt == [kind |-> "corrupt", doc |-> <<>>]

\* the titles main's load loop puts into existing_titles
TitlesOf(ents) == {Unwrap(ents[k].title) : k \in {j \in 1..Len(ents) : IsSome(ents[j].title)}}

-----------------------------------------------------------------------------
(* Inputs: the texts pdftotext yields and the files of the intake directory *)

TextA1 == <<"R","E","S","O","L","U","Ç","Ã","O"," ","1","\n",
            "1","2","/","0","1","/","2","0","2","3">>
TextA2 == <<"a","t","a","\n","R","E","S","O","L","U","Ç","Ã","O"," ","1">>
TextB  == <<"C","a","l","e","n","d","a","r","i","o","\n",
            "5"," ","d","e"," ","m","a","i","o"," ","d","e"," ","2","4">>
TextN  == <<"a","t","a"," ","7">>

File(name, is_file, text) == [name |-> name, is_file |-> is_file, text |-> text]

FilePool ==
    { File(<<"1","_","a",".","p","d","f">>, TRUE, TextA1),
      File(<<"2","_","b",".","p","d","f">>, TRUE, TextA2),
      File(<<"n",".","p","d","f">>, TRUE, TextA2),
      File(<<"3","_","c","_","d",".","p","d","f">>, TRUE, TextB),
      File(<<"4","_","e",".","p","d","f">>, TRUE, TextN),
      File(<<"5","_","f",".","t","x","t">>, TRUE, TextB),
      File(<<"6","_","g",".","p","d","f">>, TRUE, TextB),
      File(<<"d",".","p","d","f">>, FALSE, <<>>) }

\* the catalogs entries.json can hold when the first run starts: none yet, a
\* Record this program wrote, and a Record without title (Entry.title is an
\* Option, which the load loop of lines 234-239 allows for); no two Records
\* share a title
InitialCatalogs ==
    { <<>>,
      << Entry(title_hash(Unwrap(return_title(TextA1, keywords))),
               return_title(TextA1, keywords), return_date(TextA1, NowYear), TextA1,
               Unwrap(get_link(<<"1","_","a",".","p","d","f">>))) >>,
      << Entry(<<>>, None, None, TextN, <<"4","_","e",".","p","d","f">>) >> }

-----------------------------------------------------------------------------
(* Intake Orchestrator: main *)

Init ==
    /\ pc = "start"
    /\ err = ""
    /\ json_file \in {Absent, Corrupt} \cup {Serialize(c) : c \in InitialCatalogs}
    /\ in_folder \in {S \in SUBSET FilePool : Cardinality(S) <= MaxIntake}
    /\ old_folder = {}
    /\ existing_titles = {}
    /\ entries = <<>>
    /\ todo = {}
    /\ cur = None
    /\ report = <<>>
    /\ extracted = {}
    /\ failed = {}
    /\ saves = 0
    /\ loaded = <<>>
    /\ runs = 1
    /\ call = [fn |-> "main", arg |-> <<>>]
    /\ ret = None

\* create_folders_if_not_exist()?: the folders exist or are created, or main
\* ends (the user declines, or stdin or create_dir fails)
CreateFolders ==
    /\ pc = "start"
    /\ \E ok \in BOOLEAN :
          IF ok THEN pc' = "load" /\ err' = err
                ELSE pc' = "err" /\ err' = "create_folders"
    /\ UNCHANGED <<json_file, in_folder, old_folder, existing_titles, entries,
                   todo, cur, report, extracted, failed, saves, loaded, runs, call, ret>>

\* lines 226-240: existing_titles and entries from entries.json
Load ==
    /\ pc = "load"
    /\ \E read_ok \in BOOLEAN :
          IF json_file.kind = "absent"
          THEN /\ pc' = "read_dir"
               /\ UNCHANGED <<err, existing_titles, entries, loaded>>
          ELSE IF ~read_ok
          THEN /\ pc' = "err"
               /\ err' = "read_to_string"
               /\ UNCHANGED <<existing_titles, entries, loaded>>
          ELSE IF ~IsSome(Deserialize(json_file))
          THEN /\ pc' = "err"
               /\ err' = "from_str"
               /\ UNCHANGED <<existing_titles, entries, loaded>>
          ELSE /\ pc' = "read_dir"
               /\ entries' = Unwrap(Deserialize(json_file))
               /\ existing_titles' = TitlesOf(Unwrap(Deserialize(json_file)))
               /\ loaded' = Unwrap(Deserialize(json_file))
               /\ err' = err
    /\ UNCHANGED <<json_file, in_folder, old_folder, todo, cur, report,
                   extracted, failed, saves, runs, call, ret>>

\* fs::read_dir(in_folder)?
ReadDir ==
    /\ pc = "read_dir"
    /\ \E ok \in BOOLEAN :
          IF ok THEN pc' = "loop" /\ todo' = in_folder /\ err' = err
                ELSE pc' = "err" /\ todo' = todo /\ err' = "read_dir"
    /\ UNCHANGED <<json_file, in_folder, old_folder, existing_titles, entries,
                   cur, report, extracted, failed, saves, loaded, runs, call, ret>>

\* fs::rename(&path, &old_path): the file leaves in/ and replaces any file of
\* that name in old/
RenamedIn(f, files) == files \ {f}
RenamedOld(f, files) == {g \in files : g.name # f.name} \cup {f}

\* lines 252-302: the Ok arm of the match on return_parameters for the file
\* f, r being what return_parameters returned and link what get_link returns
\* for the path of f; the values of main's state after it
DateLine(date) == IF IsSome(date) THEN "Date found" ELSE "No date found"

\* mutant of OkArm: the file is moved as soon as its title is found, before
\* the link is made
OkArmMoveFirst(f, r, link, titles, ents, ins, olds, rename_ok) ==
    IF IsSome(r.title)
    THEN [existing_titles |-> titles \cup {Unwrap(r.title)},
          entries    |-> IF IsSome(link)
                         THEN push(ents, Entry(title_hash(Unwrap(r.title)), r.title,
                                               r.date, r.text, Unwrap(link)))
                         ELSE ents,
          in_folder  |-> IF rename_ok THEN RenamedIn(f, ins) ELSE ins,
          old_folder |-> IF rename_ok THEN RenamedOld(f, olds) ELSE olds,
          report     |-> <<"Title found">>
                         \o (IF rename_ok THEN <<>> ELSE <<"Error moving file">>)
                         \o (IF IsSome(link) THEN <<DateLine(r.date)>>
                             ELSE <<"Error generating link">>)]
    ELSE [existing_titles |-> titles,
          entries    |-> ents,
          in_folder  |-> ins,
          old_folder |-> olds,
          report     |-> IF r.is_duplicate
                         THEN <<"Warning: Duplicate entry">>
                         ELSE <<"No title found", DateLine(r.date)>>]

OkArm(f, r, link, titles, ents, ins, olds, rename_ok) ==
    IF IsSome(r.title)
    THEN IF ~IsSome(link)
         THEN [existing_titles |-> titles \cup {Unwrap(r.title)},
               entries    |-> ents,
               in_folder  |-> ins,
               old_folder |-> olds,
               report     |-> <<"Title found", "Error generating link">>]
         ELSE [existing_titles |-> titles \cup {Unwrap(r.title)},
               entries    |-> push(ents, Entry(title_hash(Unwrap(r.title)), r.title,
                                               r.date, r.text, Unwrap(link))),
               in_folder  |-> IF rename_ok THEN RenamedIn(f, ins) ELSE ins,
               old_folder |-> IF rename_ok THEN RenamedOld(f, olds) ELSE olds,
               report     |-> <<"Title found">>
                              \o (IF rename_ok THEN <<>> ELSE <<"Error moving file">>)
                              \o <<DateLine(r.date)>>]
    ELSE [existing_titles |-> titles,
          entries    |-> ents,
          in_folder  |-> ins,
          old_folder |-> olds,
          report     |-> IF r.is_duplicate
                         THEN <<"Warning: Duplicate entry">>
                         ELSE <<"No title found", DateLine(r.date)>>]

\* lines 242-308: one turn of the for loop over the directory entries
ProcessEntry ==
    /\ pc = "loop"
    /\ todo # {}
    /\ \E f \in todo, entry_ok \in BOOLEAN, extract_ok \in BOOLEAN, rename_ok \in BOOLEAN :
          IF ~entry_ok
          THEN \* let entry = entry?
               /\ pc' = "err"
               /\ err' = "entry"
               /\ UNCHANGED <<in_folder, old_folder, existing_titles, entries,
                              todo, cur, report, extracted, failed>>
          ELSE IF ~(f.is_file /\ extension(f.name) = Some(<<"p","d","f">>))
          THEN /\ pc' = "loop"
               /\ todo' = todo \ {f}
               /\ cur' = Some(f)
               /\ report' = <<>>
               /\ UNCHANGED <<err, in_folder, old_folder, existing_titles, entries,
                              extracted, failed>>
          ELSE IF ~extract_ok
          THEN \* let text = extract_text(&path)?
               /\ pc' = "err"
               /\ err' = "pdftotext"
               /\ todo' = todo \ {f}
               /\ cur' = Some(f)
               /\ report' = <<>>
               /\ extracted' = extracted \cup {f.name}
               /\ failed' = failed \cup {f.name}
               /\ UNCHANGED <<in_folder, old_folder, existing_titles, entries>>
          ELSE \E o \in {OkArm(f, return_parameters(f.text, keywords, existing_titles, NowYear),
                               get_link(f.name), existing_titles, entries,
                               in_folder, old_folder, rename_ok)} :
                   /\ pc' = "loop"
                   /\ todo' = todo \ {f}
                   /\ cur' = Some(f)
                   /\ report' = o.report
                   /\ extracted' = extracted \cup {f.name}
                   /\ existing_titles' = o.existing_titles
                   /\ entries' = o.entries
                   /\ in_folder' = o.in_folder
                   /\ old_folder' = o.old_folder
                   /\ UNCHANGED <<err, failed>>
    /\ UNCHANGED <<json_file, saves, loaded, runs, call, ret>>

\* mutant of LoopDone: the loop may be left while entries remain
LoopDoneEarly(remaining) == TRUE

\* line 242: the for loop ends when the iterator has no entry left
LoopDone(remaining) == remaining = {}

\* lines 310-316: fs::write creates or truncates entries.json and writes the
\* document; when it fails the file is as it was or is left cut short
Save ==
    /\ pc = "loop"
    /\ LoopDone(todo)
    /\ saves' = saves + 1
    /\ \E write_ok \in BOOLEAN :
          IF write_ok
          THEN pc' = "ok" /\ err' = err /\ json_file' = Serialize(entries)
          ELSE pc' = "err" /\ err' = "fs::write" /\ json_file' \in {json_file, Corrupt}
    /\ UNCHANGED <<in_folder, old_folder, existing_titles, entries, todo, cur,
                   report, extracted, failed, loaded, runs, call, ret>>

\* between two runs somebody puts a file into in/
DropFile ==
    /\ pc \in {"ok", "err"}
    /\ runs < MaxRuns
    /\ Cardinality(in_folder) < MaxIntake
    /\ \E f \in FilePool :
          /\ \A g \in in_folder : g.name # f.name
          /\ in_folder' = in_folder \cup {f}
    /\ UNCHANGED <<pc, err, json_file, old_folder, existing_titles, entries, todo,
                   cur, report, extracted, failed, saves, loaded, runs, call, ret>>

\* main is run again: a new process, with the directories and entries.json
\* as the last run left them
StartRun ==
    /\ pc \in {"ok", "err"}
    /\ runs < MaxRuns
    /\ runs' = runs + 1
    /\ pc' = "start"
    /\ err' = ""
    /\ existing_titles' = {}
    /\ entries' = <<>>
    /\ todo' = {}
    /\ cur' = None
    /\ report' = <<>>
    /\ extracted' = {}
    /\ failed' = {}
    /\ saves' = 0
    /\ loaded' = <<>>
    /\ UNCHANGED <<json_file, in_folder, old_folder, call, ret>>

Next ==
    \/ CreateFolders
    \/ Load
    \/ ReadDir
    \/ ProcessEntry
    \/ Save
    \/ DropFile
    \/ StartRun

Spec == Init /\ [][Next]_vars

-----------------------------------------------------------------------------
(* The functions of the program under call, one call a behaviour: call holds *)
(* the function and its argument, ret what it returned.  main is not         *)
(* running, its locals stay as they are.                                     *)

locals == <<pc, err, in_folder, old_folder, existing_titles, entries, todo, cur,
            report, extracted, failed, saves, loaded, runs>>

Call(fn, arg) == [fn |-> fn, arg |-> arg]

\* the sequences of at most n elements of S
SeqsUpTo(S, n) == UNION {[1..k -> S] : k \in 0..n}

-----------------------------------------------------------------------------
(* Catalog Store under call: a catalog is saved, then loaded *)

\* number of Records of a catalog under call
MaxCatalog == 2

\* Records with title and date each present or absent
RecordPool ==
    { Entry(title_hash(<<"T">>), Some(<<"T">>), Some(1673481600), <<"T","\n","x">>, <<"l","1">>),
      Entry(title_hash(<<"U">>), Some(<<"U">>), None, <<"U">>, <<"l","2">>),
      Entry(<<"i","3">>, None, Some(0), <<>>, <<"l","3">>),
      Entry(<<"i","4">>, None, None, <<"y">>, <<>>) }

Catalogs == SeqsUpTo(RecordPool, MaxCatalog)

\* lines 310-314: to_string_pretty(&Data { entries }) written to entries.json
SaveCatalog ==
    /\ call.fn = "save"
    /\ json_file' = Serialize(call.arg)
    /\ call' = Call("load", call.arg)
    /\ UNCHANGED <<locals, ret>>

\* lines 229-233: entries.json read and parsed
LoadCatalog ==
    /\ call.fn = "load"
    /\ ret' = Deserialize(json_file)
    /\ call' = Call("loaded", call.arg)
    /\ UNCHANGED <<locals, json_file>>

-----------------------------------------------------------------------------
(* Date Extractor under call *)

\* number of lines of a text under call
MaxLines == 2

\* a line of text and what it says: shaped when it holds a date-shaped
\* expression of one of the two formats, ymd the calendar date it denotes
\* (year, month 1..12, day), None when it denotes none
Dated(text, shaped, ymd) == [text |-> text, shaped |-> shaped, ymd |-> ymd]

DatedPool ==
    { Dated(<<"a","t","a">>, FALSE, None),
      Dated(<<"3","1","/","0","2","/","2","0","2","4">>, TRUE, None),
      Dated(<<"1","5","/","0","3","/","2","0","2","3">>, TRUE, Some(<<2023, 3, 15>>)),
      Dated(<<"3","2"," ","d","e"," ","m","a","i","o"," ","d","e"," ","2","0","2","4">>,
            TRUE, None),
      Dated(<<"3","1"," ","d","e"," ","f","e","v","e","r","e","i","r","o"," ","d","e"," ",
              "2","0","2","4">>, TRUE, None),
      Dated(<<"5"," ","d","e"," ","m","a","i","o"," ","d","e"," ","2","0","2","4">>,
            TRUE, Some(<<2024, 5, 5>>)),
      Dated(<<"2","/","0","6","/","2","0","2","2"," ","e"," ",
              "1"," ","d","e"," ","a","b","r","i","l"," ","d","e"," ","2","0","2","1">>,
            TRUE, Some(<<2021, 4, 1>>)) }

\* the lines, each but the last followed by a line feed
RECURSIVE JoinLines(_)
JoinLines(ls) ==
    IF Len(ls) = 0 THEN <<>>
    ELSE IF Len(ls) = 1 THEN ls[1].text
    ELSE ls[1].text \o <<"\n">> \o JoinLines(Tail(ls))

DatedTexts == SeqsUpTo(DatedPool, MaxLines)

\* lines 60-72: return_date on the text made of the lines of the argument
CallReturnDate ==
    /\ call.fn = "return_date"
    /\ ret' = return_date(JoinLines(call.arg), NowYear)
    /\ call' = Call("returned_date", call.arg)
    /\ UNCHANGED <<locals, json_file>>

\* one date written in the two formats: the day and the year as digits, the
\* month 1..12 by its name and by its number
DigitChar(n) == <<"0", "1", "2", "3", "4", "5", "6", "7", "8", "9">>[n + 1]

PtLine(day, month, year_str) ==
    day \o <<" ","d","e"," ">> \o month_names[month] \o <<" ","d","e"," ">> \o year_str

NumLine(day, month, year_str) ==
    day \o <<"/">> \o <<DigitChar(month \div 10), DigitChar(month % 10)>> \o <<"/">> \o year_str

DayStrs == {<<"1","5">>, <<"1">>}
YearStrs == {<<"2","4">>, <<"2","5">>, <<"9","9">>, <<"0","0">>, <<"2","0","2","3">>}
\* the years chrono::Local::now() may report
NowYears == {NowYear, 2000}

DateArgs ==
    {[day |-> d, month |-> m, year_str |-> y, now |-> n] :
        d \in DayStrs, m \in 1..12, y \in YearStrs, n \in NowYears}

\* lines 99-152 and 154-184: each grammar on the date written its way
CallExtractDates ==
    /\ call.fn = "extract_dates"
    /\ ret' = [pt  |-> extract_portuguese_date(
                          PtLine(call.arg.day, call.arg.month, call.arg.year_str),
                          call.arg.now),
               num |-> extract_date(
                          NumLine(call.arg.day, call.arg.month, call.arg.year_str),
                          call.arg.now)]
    /\ call' = Call("extracted_dates", call.arg)
    /\ UNCHANGED <<locals, json_file>>

-----------------------------------------------------------------------------
(* Title Detector under call *)

TitleLinePool ==
    { <<"R","E","S","O","L","U","Ç","Ã","O"," ","1">>,
      <<"x"," ","C","r","o","n","o","g","r","a","m","a">>,
      <<"r","e","s","o","l","u","ç","ã","o"," ","2">>,
      <<"C","a","l","e","n","d","á","r","i","o"," ","e"," ",
        "C","r","o","n","o","g","r","a","m","a">>,
      <<"a","t","a">>,
      <<>> }

\* the markers in the order of main, in the reverse order and rotated by one
Reverse(s) == [k \in 1..Len(s) |-> s[Len(s) + 1 - k]]
KeywordOrders == {keywords, Reverse(keywords), Tail(keywords) \o <<Head(keywords)>>}

TitleArgs ==
    {[lines |-> ls, kws |-> ks] : ls \in SeqsUpTo(TitleLinePool, MaxLines), ks \in KeywordOrders}

\* lines 49-58: return_title on the text made of the lines of the argument
CallReturnTitle ==
    /\ call.fn = "return_title"
    /\ ret' = return_title(JoinLines([k \in 1..Len(call.arg.lines) |->
                                        [text |-> call.arg.lines[k]]]),
                           call.arg.kws)
    /\ call' = Call("returned_title", call.arg)
    /\ UNCHANGED <<locals, json_file>>

-----------------------------------------------------------------------------
(* Text Normalizer under call.  return_parameters hands the text on as it   *)
(* got it (line 96); the normalizer is the one the specification describes. *)

\* first step, from position k on: a whitespace character both of whose
\* neighbours in the line are non-whitespace is removed
RECURSIVE RemoveSingles(_, _)
RemoveSingles(l, k) ==
    IF k > Len(l) THEN <<>>
    ELSE IF /\ l[k] \in Whitespace
            /\ 1 < k /\ k < Len(l)
            /\ l[k - 1] \notin Whitespace /\ l[k + 1] \notin Whitespace
    THEN RemoveSingles(l, k + 1)
    ELSE <<l[k]>> \o RemoveSingles(l, k + 1)

\* second step, from position k on: a run of two or more whitespace
\* characters becomes one space
RECURSIVE CollapseRuns(_, _)
CollapseRuns(l, k) ==
    IF k > Len(l) THEN <<>>
    ELSE IF RunLen(l, k, Whitespace, TRUE) >= 2
    THEN <<" ">> \o CollapseRuns(l, k + RunLen(l, k, Whitespace, TRUE))
    ELSE <<l[k]>> \o CollapseRuns(l, k + 1)

NormalizeLine(l) == CollapseRuns(RemoveSingles(l, 1), 1)

\* the normalized lines, joined by line feeds
normalize(text) ==
    JoinLines([k \in 1..Len(Lines(text)) |-> [text |-> NormalizeLine(Lines(text)[k])]])

NormLinePool ==
    { <<"a"," "," ","b">>,
      <<"a"," ","b"," ","c">>,
      <<"a"," "," "," ","b"," ","c">>,
      <<"a","b">>,
      <<" ","a","\t","b"," ">>,
      <<"a"," ","\t","b"," "," ","c"," "," ","d">> }

NormTexts ==
    {JoinLines([k \in 1..Len(ls) |-> [text |-> ls[k]]]) : ls \in SeqsUpTo(NormLinePool, MaxLines)}

\* the text is normalized
CallNormalize ==
    /\ call.fn = "normalize"
    /\ ret' = normalize(call.arg)
    /\ call' = Call("normalized", call.arg)
    /\ UNCHANGED <<locals, json_file>>

-----------------------------------------------------------------------------
(* The search handler of the server (src/Server/src/main.rs) under call *)

\* the end of the slice &query.q[..200], in bytes
TrimLen == 200
\* the least length, in bytes, of a query that is sent to the backend
MinQueryLen == 3

\* the number of bytes of a character in UTF-8: one for ASCII, two for the
\* accented letters of the model
Utf8Len(c) == IF c \in {"ç", "ã", "á", "Ç", "Ã"} THEN 2 ELSE 1

\* str::len(): the length in bytes, one for every character and one more
\* for every two-byte character
ByteLen(q) == Len(q) + Cardinality({k \in 1..Len(q) : Utf8Len(q[k]) = 2})

\* &q[..n]: the characters of the first n bytes; the slice panics (None) when
\* q has fewer than n bytes or byte n is not a character boundary
SliceAt(q, n, ks) == IF ks = {} THEN None ELSE Some(SubSeq(q, 1, FirstOf(ks)))
SliceTo(q, n) == SliceAt(q, n, {k \in 0..Len(q) : ByteLen(SubSeq(q, 1, k)) = n})

\* lines 79-101: what the handler does with the query q, trimmed being the
\* slice; backend_ok tells whether the Meilisearch query succeeds
Searched(trimmed, backend_ok) ==
    IF ~IsSome(trimmed)
    THEN [status |-> "panic", queried |-> None]
    ELSE IF ByteLen(Unwrap(trimmed)) < MinQueryLen
    THEN [status |-> "200 empty", queried |-> None]
    ELSE [status |-> IF backend_ok THEN "200" ELSE "500", queried |-> trimmed]

search(q, backend_ok) == Searched(SliceTo(q, TrimLen), backend_ok)

Rep(c, n) == [k \in 1..n |-> c]

\* queries of ASCII letters, of two-byte letters, and of both
QueryLens == {0, 2, 3, 5, 99, 100, 101, 199, 200, 201, 250}
Queries ==
    {Rep("a", n) : n \in QueryLens}
    \cup {Rep("ç", n) : n \in QueryLens}
    \cup {<<"a">> \o Rep("ç", n) : n \in QueryLens}

Search ==
    /\ call.fn = "search"
    /\ \E backend_ok \in BOOLEAN : ret' = search(call.arg, backend_ok)
    /\ call' = Call("searched", call.arg)
    /\ UNCHANGED <<locals, json_file>>

-----------------------------------------------------------------------------
(* The calls *)

Calls ==
    {Call("save", x) : x \in Catalogs}
    \cup {Call("return_date", ls) : ls \in DatedTexts}
    \cup {Call("extract_dates", a) : a \in DateArgs}
    \cup {Call("return_title", a) : a \in TitleArgs}
    \cup {Call("normalize", t) : t \in NormTexts}
    \cup {Call("search", q) : q \in Queries}

CallInit ==
    /\ pc = "lib"
    /\ err = ""
    /\ json_file = Absent
    /\ in_folder = {}
    /\ old_folder = {}
    /\ existing_titles = {}
    /\ entries = <<>>
    /\ todo = {}
    /\ cur = None
    /\ report = <<>>
    /\ extracted = {}
    /\ failed = {}
    /\ saves = 0
    /\ loaded = <<>>
    /\ runs = 0
    /\ call \in Calls
    /\ ret = None

CallNext ==
    \/ SaveCatalog
    \/ LoadCatalog
    \/ CallReturnDate
    \/ CallExtractDates
    \/ CallReturnTitle
    \/ CallNormalize
    \/ Search

CallSpec == CallInit /\ [][CallNext]_vars

-----------------------------------------------------------------------------
(* Vocabulary of the properties *)

HasTitle(e) == IsSome(e.title) /\ Unwrap(e.title) # <<>>

NoDupTitles(ents) ==
    \A i, j \in 1..Len(ents) :
        (i # j /\ HasTitle(ents[i]) /\ HasTitle(ents[j])) => ents[i].title # ents[j].title

IsPrefix(a, b) == Len(a) <= Len(b) /\ SubSeq(b, 1, Len(a)) = a

InReport(msg) == \E k \in 1..Len(report) : report[k] = msg

UnderscoreCount(stem) == Cardinality({k \in 1..Len(stem) : stem[k] = "_"})

\* the link made of the text before the first underscore of the stem and of
\* everything after it
FirstUnderscoreLink(stem) ==
    <<"https://sig.unb.br/sigrh/downloadArquivo?idArquivo=">>
    \o SubSeq(stem, 1, FirstOf({k \in 1..Len(stem) : stem[k] = "_"}) - 1)
    \o <<"&key=">>
    \o Suffix(stem, FirstOf({k \in 1..Len(stem) : stem[k] = "_"}) + 1)

\* the step in which the loop body ran on the file cur' and its text was
\* extracted
BodyRan ==
    /\ pc = "loop" /\ pc' = "loop"
    /\ IsSome(cur') /\ Unwrap(cur') \in todo /\ todo' = todo \ {Unwrap(cur')}
    /\ Unwrap(cur').name \in extracted'

\* the title the Title Detector finds in the text of file f
DetectedTitle(f) == return_title(f.text, keywords)

LastEntry == entries[Len(entries)]

-----------------------------------------------------------------------------
(* C1 *)

\* C1: at every point of every run no two Records of the in-memory catalog
\* have equal non-empty title, and neither have two Records of the catalog
\* that entries.json holds.
C1_DedupInvariant ==
    /\ NoDupTitles(entries)
    /\ json_file.kind = "json" => NoDupTitles(Unwrap(Deserialize(json_file)))

\* a second run that loaded two titled Records, skipped a file with a known
\* title and saved
C1_Witness ==
    /\ runs = 2 /\ pc = "ok"
    /\ Len(loaded) = 2 /\ HasTitle(loaded[1]) /\ HasTitle(loaded[2])
    /\ report = <<"Warning: Duplicate entry">>
    /\ Deserialize(json_file) = Some(entries)

-----------------------------------------------------------------------------
(* C2 *)

\* C2: the step in which pdftotext fails on a file does not abort the batch:
\* main stays in the loop with the remaining files still to come, and the
\* file stays in the intake directory.
C2_ExtractionFailureContinues ==
    [][(failed' \ failed # {}) =>
          (pc' = "loop" /\ err' = "" /\ in_folder' = in_folder)]_vars

-----------------------------------------------------------------------------
(* C3 *)

\* C3: the known-titles set is exactly the set of the titles of the Records
\* of the in-memory catalog.
C3_KnownTitlesAreCatalogTitles == existing_titles = TitlesOf(entries)

-----------------------------------------------------------------------------
(* C4 *)

\* C4: when the loop body runs on a file whose detected title is the title
\* of a Record of the catalog, the catalog, the directories and entries.json
\* stay as they are, the duplicate is reported, the file is still in the
\* intake directory and main stays in the loop.
C4_DuplicateChangesNothing ==
    [][(/\ BodyRan
        /\ IsSome(DetectedTitle(Unwrap(cur')))
        /\ Unwrap(DetectedTitle(Unwrap(cur'))) \in TitlesOf(entries))
       => (/\ entries' = entries
           /\ in_folder' = in_folder /\ Unwrap(cur') \in in_folder'
           /\ old_folder' = old_folder
           /\ json_file' = json_file
           /\ report' = <<"Warning: Duplicate entry">>)]_vars

\* the body ran on a duplicate, which is still in in/, and files remain
C4_Witness ==
    /\ pc = "loop" /\ todo # {}
    /\ IsSome(cur) /\ Unwrap(cur) \in in_folder
    /\ IsSome(DetectedTitle(Unwrap(cur)))
    /\ Unwrap(DetectedTitle(Unwrap(cur))) \in TitlesOf(loaded)
    /\ report = <<"Warning: Duplicate entry">>
    /\ entries = loaded

-----------------------------------------------------------------------------
(* C5 *)

\* C5: when the loop body runs on a file whose stem does not have exactly
\* one underscore, no Record is appended and the file is not moved; if its
\* text holds a title that is not yet known, the link error is reported;
\* main stays in the loop.
C5_MalformedFilenameRejected ==
    [][(BodyRan /\ UnderscoreCount(file_stem(Unwrap(cur').name)) # 1)
       => (/\ entries' = entries
           /\ in_folder' = in_folder /\ Unwrap(cur') \in in_folder'
           /\ old_folder' = old_folder
           /\ (/\ IsSome(DetectedTitle(Unwrap(cur')))
               /\ Unwrap(DetectedTitle(Unwrap(cur'))) \notin existing_titles)
              => report' = <<"Title found", "Error generating link">>)]_vars

\* the body ran on a file without underscore whose title was new: it was
\* rejected, it is still in in/, and files remain
C5_Witness ==
    /\ pc = "loop" /\ todo # {}
    /\ IsSome(cur) /\ Unwrap(cur) \in in_folder
    /\ UnderscoreCount(file_stem(Unwrap(cur).name)) = 0
    /\ report = <<"Title found", "Error generating link">>
    /\ entries = loaded

-----------------------------------------------------------------------------
(* C6 *)

\* the loop body found a title that was not known in the file cur
NewTitleFound == IsSome(cur) /\ Len(report) >= 1 /\ report[1] = "Title found"

\* the Record of cur is the last of the catalog, with the given link
AcceptedWith(link) ==
    /\ ~InReport("Error generating link")
    /\ Len(entries) >= 1
    /\ LastEntry.title = DetectedTitle(Unwrap(cur))
    /\ LastEntry.link = link

\* no Record was made for cur
Rejected ==
    /\ InReport("Error generating link")
    /\ Unwrap(DetectedTitle(Unwrap(cur))) \notin TitlesOf(entries)

\* C6 as stated: a file with a new title whose stem has an underscore is
\* accepted, its link made of the text before the first underscore and of
\* everything after it, further underscores included.
C6_SplitOnFirstUnderscore ==
    (NewTitleFound /\ UnderscoreCount(file_stem(Unwrap(cur).name)) >= 1)
    => AcceptedWith(FirstUnderscoreLink(file_stem(Unwrap(cur).name)))

\* C6 as amended: a file with a new title is accepted exactly if its stem
\* has exactly one underscore, its link then made of the text before the
\* underscore and of the text after it; a stem with further underscores in
\* the key, or with none, is rejected.
C6_ExactlyOneUnderscore ==
    NewTitleFound =>
        IF UnderscoreCount(file_stem(Unwrap(cur).name)) = 1
        THEN AcceptedWith(FirstUnderscoreLink(file_stem(Unwrap(cur).name)))
        ELSE Rejected

\* a file whose key holds a further underscore was rejected
C6_Witness ==
    /\ NewTitleFound
    /\ UnderscoreCount(file_stem(Unwrap(cur).name)) = 2
    /\ Rejected
    /\ Unwrap(cur) \in in_folder

-----------------------------------------------------------------------------
(* C7 *)

\* C7: after the loop body ran on a file in which neither title nor date
\* was found, the last Record of the catalog is that file's: no title, no
\* date, the text as content.
C7_ContentOnlyRecordAppended ==
    (IsSome(cur) /\ report = <<"No title found", "No date found">>)
    => (/\ Len(entries) >= 1
        /\ LastEntry.title = None
        /\ LastEntry.date = None
        /\ LastEntry.content = Unwrap(cur).text)

-----------------------------------------------------------------------------
(* C8 *)

\* C8: entries.json is written only by the one fs::write after the loop has
\* run out of directory entries; a run that ends with Ok has written once
\* and entries.json then holds the in-memory catalog, the loaded Records
\* followed by those accepted in the run.
C8_SavedOnceAtCompletion ==
    /\ [](/\ saves <= 1
          /\ saves = 1 => (todo = {} /\ pc \in {"ok", "err"})
          /\ pc \in {"start", "load", "read_dir", "loop"} => saves = 0
          /\ pc = "ok" => (/\ saves = 1
                           /\ Deserialize(json_file) = Some(entries)
                           /\ IsPrefix(loaded, entries)))
    /\ [][json_file' # json_file =>
             (pc = "loop" /\ todo = {} /\ saves = 0 /\ saves' = 1)]_vars

\* a run ended with Ok after two files, one Record loaded and one accepted
C8_Witness ==
    /\ pc = "ok" /\ saves = 1
    /\ Cardinality(extracted) = 2
    /\ Len(loaded) = 1 /\ Len(entries) = 2
    /\ Deserialize(json_file) = Some(entries)

-----------------------------------------------------------------------------
(* C9 *)

\* C9: with an entries.json that does not deserialize, the load step ends
\* the run with an error and touches neither the directories nor
\* entries.json; the run has then extracted no file and written nothing, and
\* nothing is moved or written afterwards.  With no entries.json the load
\* step goes on to the directory with an empty catalog.
C9_CorruptCatalogStopsRun ==
    /\ [][(pc = "load" /\ json_file.kind = "corrupt")
          => (pc' = "err" /\ UNCHANGED <<json_file, in_folder, old_folder,
                                          extracted, saves>>)]_vars
    /\ [](err = "from_str" => (/\ pc = "err" /\ extracted = {} /\ saves = 0
                               /\ json_file.kind = "corrupt"))
    /\ [][(pc = "err" /\ pc' = "err")
          => (json_file' = json_file /\ old_folder' = old_folder
              /\ in_folder \subseteq in_folder')]_vars
    /\ [][(pc = "load" /\ json_file.kind = "absent")
          => (pc' = "read_dir" /\ entries' = <<>> /\ existing_titles' = {})]_vars

\* the run stopped at the load with files waiting in in/
C9_Witness ==
    /\ pc = "err" /\ err = "from_str"
    /\ json_file = Corrupt
    /\ in_folder # {}
    /\ extracted = {} /\ old_folder = {}

-----------------------------------------------------------------------------
(* C10 *)

\* C10: the Records loaded at the start stay an unchanged prefix of the
\* in-memory catalog; within a run every step leaves the catalog as it is or
\* appends one Record at its end, and a Record the loop body appends is that
\* of the file it ran on.
C10_CatalogGrowsInOrder ==
    /\ [](IsPrefix(loaded, entries))
    /\ [][pc' # "start" =>
             (/\ IsPrefix(entries, entries')
              /\ pc = "loop" => Len(entries') <= Len(entries) + 1
              /\ (pc = "loop" /\ entries' # entries)
                 => (/\ IsSome(cur')
                     /\ entries'[Len(entries')].content = Unwrap(cur').text))]_vars

\* one Record was loaded and two were appended after it
C10_Witness ==
    /\ Len(loaded) = 1
    /\ Len(entries) = 3
    /\ IsPrefix(loaded, entries)
    /\ pc = "ok"


-----------------------------------------------------------------------------
(* C11 *)

\* C11: for every catalog x, whatever Records it holds and in whatever
\* order, with title and date each present or absent, loading the document
\* that saving x wrote yields Ok of a catalog equal to x: same length, same
\* order, every field equal, an absent title or date still absent.
C11_SerializationRoundTrips ==
    call.fn = "loaded" =>
        /\ IsSome(ret)
        /\ Len(Unwrap(ret)) = Len(call.arg)
        /\ \A k \in 1..Len(call.arg) :
              /\ Unwrap(ret)[k].id = call.arg[k].id
              /\ Unwrap(ret)[k].title = call.arg[k].title
              /\ Unwrap(ret)[k].date = call.arg[k].date
              /\ Unwrap(ret)[k].content = call.arg[k].content
              /\ Unwrap(ret)[k].link = call.arg[k].link
              /\ DOMAIN Unwrap(ret)[k] = {"id", "title", "date", "content", "link"}

\* a catalog of two Records, the first with neither title nor date, the
\* second with both, has been saved and loaded
C11_Witness ==
    /\ call.fn = "loaded"
    /\ Len(call.arg) = 2
    /\ call.arg[1].title = None /\ call.arg[1].date = None
    /\ IsSome(call.arg[2].title) /\ IsSome(call.arg[2].date)
    /\ json_file = Serialize(call.arg)
    /\ ret = Some(call.arg)


-----------------------------------------------------------------------------
(* C12, C13 *)

\* the lines of ls that hold a valid date, and the timestamp of the date of
\* the earliest of them
ValidLines(ls) == {k \in 1..Len(ls) : IsSome(ls[k].ymd)}

EarliestValidDate(ls) ==
    IF ValidLines(ls) = {} THEN None
    ELSE Timestamp(Unwrap(ls[FirstOf(ValidLines(ls))].ymd)[1],
                   Unwrap(ls[FirstOf(ValidLines(ls))].ymd)[2],
                   Unwrap(ls[FirstOf(ValidLines(ls))].ymd)[3])

\* the first date-shaped expression of the text denotes no calendar date and
\* a later line holds a valid date
InvalidThenValid(ls) ==
    \E i \in 1..Len(ls) :
        /\ ls[i].shaped /\ ~IsSome(ls[i].ymd)
        /\ \A h \in 1..(i - 1) : ~ls[h].shaped
        /\ \E j \in (i + 1)..Len(ls) : IsSome(ls[j].ymd)

\* C12: when a date-shaped expression of either format denotes no calendar
\* date, it is skipped: if a later line holds a valid date of either format,
\* return_date returns the timestamp of that date; and return_date returns
\* None only for a text none of whose lines holds a valid date.
C12_InvalidDateSkipped ==
    call.fn = "returned_date" =>
        /\ InvalidThenValid(call.arg) => ret = EarliestValidDate(call.arg)
        /\ ret = None => ValidLines(call.arg) = {}

\* C13: return_date returns the date of the earliest line that holds a valid
\* date of either format, the locale-named format first within a line; so a
\* numeric date on an earlier line wins over a locale-named date on a later
\* line, and the result is None when no line holds a valid date.
C13_EarliestLineWins ==
    call.fn = "returned_date" => ret = EarliestValidDate(call.arg)


-----------------------------------------------------------------------------
(* C14 *)

\* the year a year string stands for when the current year is now: a
\* two-digit y is 2000 + y when y <= now % 100 and 1900 + y otherwise, a
\* four-digit year is itself
CenturyOf(year_str, now) ==
    IF Len(year_str) = 2
    THEN (IF Unwrap(ParseInt(year_str)) <= now % 100
          THEN 2000 + Unwrap(ParseInt(year_str))
          ELSE 1900 + Unwrap(ParseInt(year_str)))
    ELSE Unwrap(ParseInt(year_str))

\* C14: the two grammars resolve a two-digit year the same way (y <= c gives
\* 2000 + y, else 1900 + y) and leave a four-digit year as it is, so one
\* day, month and year written in the locale-named format and in the numeric
\* format yield the same timestamp, that of the day and month written in the
\* resolved year.
C14_SameTimestampInBothFormats ==
    call.fn = "extracted_dates" =>
        /\ ret.pt = ret.num
        /\ ret.pt = Timestamp(CenturyOf(call.arg.year_str, call.arg.now),
                              call.arg.month, Unwrap(ParseInt(call.arg.day)))


-----------------------------------------------------------------------------
(* C15 *)

\* pat occurs in s, letter for letter
Occurs(pat, s) ==
    \E i \in 0..(Len(s) - Len(pat)) : \A k \in 1..Len(pat) : s[i + k] = pat[k]

\* the lines of ls in which one of the markers occurs, whatever their order
MarkedLines(ls) ==
    {k \in 1..Len(ls) : \E n \in 1..Len(keywords) : Occurs(keywords[n], ls[k])}

\* C15: return_title returns the first line, in the order of the document,
\* in which any marker occurs as a case-sensitive substring, whatever the
\* order in which the markers are given, and returns None exactly when no
\* line holds a marker.
C15_FirstMarkedLine ==
    call.fn = "returned_title" =>
        /\ ret = None <=> MarkedLines(call.arg.lines) = {}
        /\ MarkedLines(call.arg.lines) # {} =>
              ret = Some(call.arg.lines[FirstOf(MarkedLines(call.arg.lines))])

\* the markers were given in another order than main's; the first line holds
\* a marker in lower case only, the second a marker that is not the first of
\* the markers given, and the second line is returned
C15_Witness ==
    /\ call.fn = "returned_title"
    /\ call.arg.kws # keywords
    /\ Len(call.arg.lines) = 2
    /\ call.arg.lines[1] = <<"r","e","s","o","l","u","ç","ã","o"," ","2">>
    /\ Occurs(<<"C","r","o","n","o","g","r","a","m","a">>, call.arg.lines[2])
    /\ ~Occurs(call.arg.kws[1], call.arg.lines[2])
    /\ ret = Some(call.arg.lines[2])


-----------------------------------------------------------------------------
(* C16 *)

\* C16: the normalizer is idempotent: normalizing the normalized text gives
\* the normalized text again, for every text.
C16_NormalizerIdempotent ==
    call.fn = "normalized" => normalize(ret) = ret


-----------------------------------------------------------------------------
(* C17 *)

\* the Record main makes of the file f
RecordOf(f) ==
    Entry(title_hash(Unwrap(DetectedTitle(f))), DetectedTitle(f),
          return_date(f.text, NowYear), f.text, Unwrap(get_link(f.name)))

\* the step appends the Record of the file cur' to the catalog
Appended ==
    /\ IsSome(cur')
    /\ IsSome(DetectedTitle(Unwrap(cur'))) /\ IsSome(get_link(Unwrap(cur').name))
    /\ entries' = Append(entries, RecordOf(Unwrap(cur')))

\* C17: a file leaves in/ or enters old/ only in a turn of the loop that has
\* appended its Record, and only when its title was not known and its name
\* yields a link; when the move fails, the failure is reported, the Record
\* stays appended, the file stays in in/ and main stays in the loop, going
\* on to the next file and to the save.
C17_ArchivedOnlyOnceAppended ==
    [][/\ ((\E f \in in_folder : f \notin in_folder') \/ old_folder' # old_folder)
          => (/\ BodyRan
              /\ IsSome(DetectedTitle(Unwrap(cur')))
              /\ Unwrap(DetectedTitle(Unwrap(cur'))) \notin existing_titles
              /\ IsSome(get_link(Unwrap(cur').name))
              /\ Appended
              /\ in_folder' = in_folder \ {Unwrap(cur')}
              /\ Unwrap(cur') \in old_folder')
       /\ (BodyRan /\ \E k \in 1..Len(report') : report'[k] = "Error moving file")
          => (/\ Appended
              /\ in_folder' = in_folder /\ Unwrap(cur') \in in_folder'
              /\ old_folder' = old_folder
              /\ pc' = "loop" /\ err' = "")]_vars

\* a run archived one file, failed to move a second one whose Record is the
\* last of the catalog, and went on to save the catalog with both Records
C17_Witness ==
    /\ pc = "ok"
    /\ json_file = Serialize(entries)
    /\ IsSome(cur) /\ InReport("Error moving file")
    /\ Unwrap(cur) \in in_folder
    /\ Len(entries) >= 2 /\ LastEntry = RecordOf(Unwrap(cur))
    /\ \E g \in old_folder : entries[Len(entries) - 1] = RecordOf(g)


-----------------------------------------------------------------------------
(* C18 *)

\* C18: the loop body treats a file as a duplicate only if the catalog holds
\* a Record with the title of the file at that moment; so a file whose name
\* yields a link and whose title no Record of the catalog has is accepted,
\* its Record appended, even when an earlier file of the run with the same
\* title was rejected for its malformed name.
C18_DuplicateOnlyIfInCatalog ==
    [][BodyRan =>
         /\ (\E k \in 1..Len(report') : report'[k] = "Warning: Duplicate entry")
            => (/\ IsSome(DetectedTitle(Unwrap(cur')))
                /\ Unwrap(DetectedTitle(Unwrap(cur'))) \in TitlesOf(entries))
         /\ (/\ IsSome(DetectedTitle(Unwrap(cur')))
             /\ Unwrap(DetectedTitle(Unwrap(cur'))) \notin TitlesOf(entries)
             /\ IsSome(get_link(Unwrap(cur').name)))
            => Appended]_vars


-----------------------------------------------------------------------------
(* C19 *)

\* the files the current run moved from in/ to old/
MovedThisRun == {f \in old_folder : f.name \in extracted /\ f \notin in_folder}

\* entries.json holds a catalog with the Record of the file f
Persisted(f) ==
    /\ IsSome(Deserialize(json_file))
    /\ \E k \in 1..Len(Unwrap(Deserialize(json_file))) :
          Unwrap(Deserialize(json_file))[k] = RecordOf(f)

\* C19: when a run has ended, by completing or by stopping on an error
\* (failed extraction, directory-entry error, failed save), the catalog that
\* entries.json holds has the Record of every file the run moved to old/.
C19_ArchivedFilesArePersisted ==
    pc \in {"ok", "err"} => \A f \in MovedThisRun : Persisted(f)


-----------------------------------------------------------------------------
(* C20 *)

\* the first TrimLen characters of q, all of q when it is shorter
FirstChars(q) == SubSeq(q, 1, Min(TrimLen, Len(q)))

\* C20: the search handler accepts a query of any length: it trims the query
\* to its first 200 characters at most, answers with the empty list without
\* querying the backend when the trimmed query has fewer than 3 characters,
\* and queries the backend with the trimmed query otherwise; it never fails
\* on a query shorter than 200 characters.
C20_SearchAcceptsAnyLength ==
    call.fn = "searched" =>
        /\ ret.status # "panic"
        /\ IF Len(FirstChars(call.arg)) < MinQueryLen
           THEN ret.status = "200 empty" /\ ret.queried = None
           ELSE ret.queried = Some(FirstChars(call.arg))


=============================================================================
